---------------------------- MODULE Spec2Model ----------------------------
(***************************************************************************)
(* A model of loc_counter.py: a command-line tool that walks a directory   *)
(* tree, keeps the files whose extension is recognised, counts the lines   *)
(* of each and prints a table per extension with a totals row.             *)
(*                                                                         *)
(* Python strings (paths, file names, extensions, file contents) are       *)
(* sequences of one-character strings, so that splitext, lower, join and   *)
(* the line iteration are computed character by character as the code and  *)
(* the library functions it calls compute them.                            *)
(***************************************************************************)
EXTENDS Integers, Sequences, FiniteSets, TLC

-----------------------------------------------------------------------------
(* Bounds of the model. *)

\* Deepest directory nesting below the root in the modelled trees.
MaxDepth == 2

\* Largest number of files in a modelled tree.
MaxFiles == 2

\* Longest file content (in characters) given to count_lines_in_file alone.
MaxLen == 4

\* Longest candidate list given to the aggregation loop alone.
MaxScan == 3

-----------------------------------------------------------------------------
(* The compiled-in tables. *)

CODE_EXTENSIONS ==
    { <<".","h","t","m","l">>, <<".","h","t","m">>, <<".","c","s","s">>, <<".","s","c","s","s">>, <<".","s","a","s","s">>, <<".","l","e","s","s">>, <<".","s","t","y","l">>,
      <<".","j","s">>, <<".","j","s","x">>, <<".","t","s">>, <<".","t","s","x">>, <<".","c","j","s">>, <<".","m","j","s">>, <<".","v","u","e">>, <<".","s","v","e","l","t","e">>, <<".","e","j","s">>, <<".","p","u","g">>, <<".","h","b","s">>,
      <<".","p","y">>, <<".","j","a","v","a">>, <<".","c">>, <<".","h">>, <<".","c","p","p">>, <<".","h","p","p">>, <<".","c","s">>, <<".","g","o">>, <<".","r","s">>, <<".","p","h","p">>,
      <<".","r","b">>, <<".","s","w","i","f","t">>, <<".","k","t">>, <<".","k","t","s">>, <<".","d","a","r","t">>, <<".","l","u","a">>, <<".","g","r","o","o","v","y">>, <<".","r">>, <<".","m">>,
      <<".","e","x">>, <<".","e","x","s">>, <<".","e","r","l">>, <<".","h","r","l">>, <<".","c","l","j">>, <<".","c","l","j","s">>, <<".","c","l","j","c">>, <<".","m","l">>, <<".","m","l","i">>, <<".","n","i","m">>,
      <<".","s","h">>, <<".","f","i","s","h">>, <<".","b","a","t">>, <<".","p","s","1">>, <<".","m","a","k","e">>, <<".","m","k">>, <<".","g","r","a","d","l","e">>, <<".","b","a","z","e","l">>, <<".","b","z","l">>, <<".","n","i","x">>,
      <<".","j","s","o","n">>, <<".","x","m","l">>, <<".","y","a","m","l">>, <<".","y","m","l">>, <<".","t","o","m","l">>, <<".","i","n","i">>, <<".","c","f","g">>, <<".","c","o","n","f">>, <<".","e","n","v">>,
      <<".","m","d">>, <<".","r","s","t">>, <<".","a","d","o","c">>, <<".","a","s","c","i","i","d","o","c">>, <<".","t","e","x">>,
      <<".","s","q","l">>, <<".","l","o","g">>, <<".","c","s","v">>, <<".","t","s","v">>,
      <<".","t","s","c","n">>, <<".","g","d">>, <<".","u","x">>,
      <<".","w","a","s","m">>, <<".","w","a","t">> }

EXCLUDE_DIRS ==
    { <<"_","_","p","y","c","a","c","h","e","_","_">>, <<"n","o","d","e","_","m","o","d","u","l","e","s">>, <<"v","e","n","d","o","r">>, <<"b","u","i","l","d">>, <<"d","i","s","t">>, <<"t","a","r","g","e","t">>, <<"o","u","t">>,
      <<".","g","i","t">>, <<".","s","v","n">>, <<".","h","g">>, <<".","v","s","c","o","d","e">>, <<".","i","d","e","a">>, <<"e","n","v">>, <<"v","e","n","v">>,
      <<"l","o","g","s">>, <<"l","o","g">>, <<"t","m","p">>, <<"t","e","m","p">>, <<"c","a","c","h","e">>, <<".","c","a","c","h","e">> }

EXCLUDE_FILES ==
    { <<"p","a","c","k","a","g","e","-","l","o","c","k",".","j","s","o","n">>, <<"y","a","r","n",".","l","o","c","k">>, <<"p","n","p","m","-","l","o","c","k",".","y","a","m","l">>, <<"c","o","m","p","o","s","e","r",".","l","o","c","k">>,
      <<".","D","S","_","S","t","o","r","e">> }

-----------------------------------------------------------------------------
(* Characters and the string functions the program calls. *)

SEP == "/"

EXTSEP == "."

LF == "\n"

CR == "\r"

UpperCase == <<"A","B","C","D","E","F","G","H","I","J","K","L","M",
               "N","O","P","Q","R","S","T","U","V","W","X","Y","Z">>

LowerCase == <<"a","b","c","d","e","f","g","h","i","j","k","l","m",
               "n","o","p","q","r","s","t","u","v","w","x","y","z">>

\* str.lower() on one character.
LowerChar(c) ==
    IF \E i \in 1..Len(UpperCase) : UpperCase[i] = c
    THEN LowerCase[CHOOSE i \in 1..Len(UpperCase) : UpperCase[i] = c]
    ELSE c

\* str.lower().
lower(s) == [i \in 1..Len(s) |-> LowerChar(s[i])]

\* str.rfind(c), 1-based; 0 when c does not occur (Python's -1).
rfind(p, c) ==
    LET I == {i \in 1..Len(p) : p[i] = c}
    IN  IF I = {} THEN 0 ELSE CHOOSE i \in I : \A j \in I : j <= i

\* os.path.splitext(p)[1]: the suffix from the last dot of the last path
\* component, empty when that component has no dot or only leading dots.
splitext(p) ==
    LET sepIndex == rfind(p, SEP)
        dotIndex == rfind(p, EXTSEP)
    IN  IF /\ dotIndex > sepIndex
           /\ \E k \in (sepIndex + 1)..(dotIndex - 1) : p[k] # EXTSEP
        THEN SubSeq(p, dotIndex, Len(p))
        ELSE << >>

\* os.path.join(a, b) for two components.
join(a, b) ==
    IF Len(b) > 0 /\ b[1] = SEP THEN b
    ELSE IF a = << >> \/ a[Len(a)] = SEP THEN a \o b
    ELSE a \o <<SEP>> \o b

DigitChars == <<"0","1","2","3","4","5","6","7","8","9">>

RECURSIVE FormatInt(_)
\* f"{n}": the decimal digits of a natural number.
FormatInt(n) ==
    IF n < 10 THEN <<DigitChars[n + 1]>>
    ELSE FormatInt(n \div 10) \o <<DigitChars[(n % 10) + 1]>>

RECURSIVE FormatThousands(_)
\* f"{n:,}": the decimal digits in groups of three separated by commas.
FormatThousands(n) ==
    IF n < 1000 THEN FormatInt(n)
    ELSE FormatThousands(n \div 1000) \o <<",">> \o
         <<DigitChars[((n \div 100) % 10) + 1],
           DigitChars[((n \div 10) % 10) + 1],
           DigitChars[(n % 10) + 1]>>

-----------------------------------------------------------------------------
(* The environment: the directory tree under the root and what a file      *)
(* gives when it is opened and read.                                       *)

\* Directory names of the modelled trees: an ordinary one, an excluded one.
DirNames == { <<"s">>, <<"o","u","t">> }

\* File names of the modelled trees: two recognised extensions (one in upper
\* case), an unrecognised one, an excluded name whose extension is recognised.
FileNames ==
    { <<"a",".","c">>, <<"B",".","H">>, <<"x",".","t">>,
      <<"p","a","c","k","a","g","e","-","l","o","c","k",".","j","s","o","n">> }

\* The path arguments given on the command line (with none the default is
\* "."): a root whose own name is an excluded one, with a trailing slash.
RootArgs == { <<"o","u","t","/">> }

RECURSIVE DirPaths(_)
\* The directories at most k levels below the root, as sequences of names.
DirPaths(k) ==
    IF k = 0 THEN { << >> }
    ELSE DirPaths(k - 1) \cup
         { Append(p, d) : p \in DirPaths(k - 1), d \in DirNames }

\* A file of the tree: the directory it is in (below the root) and its name.
Entries == [dir : DirPaths(MaxDepth), name : FileNames]

RECURSIVE KSubsets(_, _)
\* The subsets of S with at most k elements.
KSubsets(S, k) ==
    IF k = 0 THEN { {} }
    ELSE LET P == KSubsets(S, k - 1)
         IN  P \cup { p \cup {e} : p \in P, e \in S }

\* The trees: a directory exists when a file lies in it or below it.
Trees == KSubsets(Entries, MaxFiles)

\* What open() and the read give: failure, or the decoded characters.
ReadError == [ok |-> FALSE, data |-> << >>]

FileReads ==
    { ReadError,
      [ok |-> TRUE, data |-> << >>],
      [ok |-> TRUE, data |-> <<"x", CR, LF, "x">>] }

\* The orders in which a directory listing can come back.
Orderings(S) ==
    { q \in [1..Cardinality(S) -> S] : \A e \in S : \E i \in DOMAIN q : q[i] = e }

-----------------------------------------------------------------------------
(* State. *)

VARIABLES
    argv,           \* the positional command-line arguments
    path_kind,      \* what the path names: "dir", "file" or "missing"
    tree,           \* the files under the root
    pc,             \* the program's position
    project_path,   \* main's and analyze_project's project_path
    walk_stack,     \* os.walk: the directories still to be yielded
    files_to_scan,  \* analyze_project's candidate list
    idx,            \* position of the aggregation loop in files_to_scan
    stats_by_lang,  \* the dict, in insertion order: [lang, files, lines]
    total_files,
    total_lines,
    fs_opens,       \* the open() calls made so far and what each gave
    stdout,
    stderr,
    exit_code,      \* -1 while the process runs
    call_arg,       \* argument of a function called on its own
    call_ret        \* its return value, << >> before the call

vars == << argv, path_kind, tree, pc, project_path, walk_stack, files_to_scan,
           idx, stats_by_lang, total_files, total_lines, fs_opens, stdout,
           stderr, exit_code, call_arg, call_ret >>

Line(kind, args) == [kind |-> kind, args |-> args]

-----------------------------------------------------------------------------
(* count_lines_in_file *)

RECURSIVE UniversalNewlines(_)
\* open(..., 'r') with newline=None: "\r\n" and "\r" are read as "\n".
UniversalNewlines(c) ==
    IF c = << >> THEN << >>
    ELSE IF c[1] = CR
         THEN IF Len(c) >= 2 /\ c[2] = LF
              THEN <<LF>> \o UniversalNewlines(SubSeq(c, 3, Len(c)))
              ELSE <<LF>> \o UniversalNewlines(Tail(c))
         ELSE <<c[1]>> \o UniversalNewlines(Tail(c))

\* FileLines counting only the "\n": the characters after the last "\n" are
\* no line. C8_LineCount fails with it.
FileLinesOnlyTerminated(t) ==
    [i \in 1..Cardinality({j \in 1..Len(t) : t[j] = LF}) |-> << LF >>]

RECURSIVE FileLines(_)
\* Iterating the file object: each line up to and including its "\n", and
\* the characters after the last "\n" when there are any.
FileLines(t) ==
    IF t = << >> THEN << >>
    ELSE LET N == {i \in 1..Len(t) : t[i] = LF}
         IN  IF N = {} THEN << t >>
             ELSE LET k == CHOOSE i \in N : \A j \in N : i <= j
                  IN  << SubSeq(t, 1, k) >> \o FileLines(SubSeq(t, k + 1, Len(t)))

\* count_lines_in_file with a silent except clause. C5_UnreadableFile fails
\* with it.
count_lines_in_file_silent(file_path, file) ==
    IF file.ok
    THEN [ret |-> Len(FileLines(UniversalNewlines(file.data))), err |-> << >>]
    ELSE [ret |-> 0, err |-> << >>]

\* count_lines_in_file(file_path), given what opening and reading the file
\* gives: the returned count and what is printed to stderr.
count_lines_in_file(file_path, file) ==
    IF file.ok
    THEN [ret |-> Len(FileLines(UniversalNewlines(file.data))), err |-> << >>]
    ELSE [ret |-> 0, err |-> << Line("warning", <<file_path>>) >>]

-----------------------------------------------------------------------------
(* analyze_project *)

\* os.scandir at a directory of the tree: its subdirectories and its files.
ScanDirs(loc) ==
    { e.dir[Len(loc) + 1] :
        e \in { f \in tree : /\ Len(f.dir) > Len(loc)
                             /\ SubSeq(f.dir, 1, Len(loc)) = loc } }

ScanFiles(loc) == { e.name : e \in { f \in tree : f.dir = loc } }

\* The loop body without the pruning of dirs. C2_PrunedBelowRoot fails with it.
PruneDirsNone(dirs) == dirs

\* dirs[:] = [d for d in dirs if d not in EXCLUDE_DIRS]
PruneDirs(dirs) == SelectSeq(dirs, LAMBDA d : d \notin EXCLUDE_DIRS)

\* The candidate test without the EXCLUDE_FILES check. C3_ExcludedFiles fails
\* with it.
IsCandidateByExtension(filename) ==
    lower(splitext(filename)) \in CODE_EXTENSIONS

\* The body of the loop over files: whether filename becomes a candidate.
IsCandidate(filename) ==
    /\ filename \notin EXCLUDE_FILES
    /\ lower(splitext(filename)) \in CODE_EXTENSIONS

\* The file_ext of the aggregation loop without .lower(). C4_OwnExtension
\* fails with it.
FileExtAsWritten(file_path) == splitext(file_path)

\* The file_ext of the aggregation loop.
FileExt(file_path) == lower(splitext(file_path))

\* The loop body with 'lines' assigned (=) instead of added to (+=).
\* C10_OrderIndependent fails with it.
TallyAssignLines(stats, file_ext, line_count) ==
    IF \E i \in 1..Len(stats) : stats[i].lang = file_ext
    THEN [i \in 1..Len(stats) |->
            IF stats[i].lang = file_ext
            THEN [lang |-> file_ext, files |-> stats[i].files + 1,
                  lines |-> line_count]
            ELSE stats[i]]
    ELSE Append(stats, [lang |-> file_ext, files |-> 1, lines |-> line_count])

\* stats_by_lang[file_ext]['files'] += 1; stats_by_lang[file_ext]['lines'] += line_count
Tally(stats, file_ext, line_count) ==
    IF \E i \in 1..Len(stats) : stats[i].lang = file_ext
    THEN [i \in 1..Len(stats) |->
            IF stats[i].lang = file_ext
            THEN [lang |-> file_ext, files |-> stats[i].files + 1,
                  lines |-> stats[i].lines + line_count]
            ELSE stats[i]]
    ELSE Append(stats, [lang |-> file_ext, files |-> 0 + 1, lines |-> 0 + line_count])

RECURSIVE SumFiles(_)
\* sum(stats['files'] for stats in stats_by_lang.values())
SumFiles(stats) ==
    IF stats = << >> THEN 0 ELSE Head(stats).files + SumFiles(Tail(stats))

\* total_lines summed over the 'files' field. C1_Additivity fails with it.
SumLinesOfFiles(stats) == SumFiles(stats)

RECURSIVE SumLines(_)
\* sum(stats['lines'] for stats in stats_by_lang.values())
SumLines(stats) ==
    IF stats = << >> THEN 0 ELSE Head(stats).lines + SumLines(Tail(stats))

\* One iteration of the aggregation loop on file_path, given what the file
\* gives: the new stats_by_lang and what is printed to stderr.
ScanStep(stats, file_path, file) ==
    LET file_ext == FileExt(file_path)
        counted  == count_lines_in_file(file_path, file)
    IN  [stats |-> Tally(stats, file_ext, counted.ret), err |-> counted.err]

\* return stats_by_lang, total_files, total_lines
Totals(stats) ==
    [stats |-> stats, total_files |-> SumFiles(stats), total_lines |-> SumLines(stats)]

\* return {}, 0, 0
NothingFound == [stats |-> << >>, total_files |-> 0, total_lines |-> 0]

-----------------------------------------------------------------------------
(* print_report *)

\* The insertion of a sort without reverse=True (ascending). C9_ReportRows
\* fails with it.
InsertByLinesAscending(sorted, item) ==
    LET n == Cardinality({i \in 1..Len(sorted) : sorted[i].lines <= item.lines})
    IN  SubSeq(sorted, 1, n) \o << item >> \o SubSeq(sorted, n + 1, Len(sorted))

\* Where sorted(..., reverse=True) puts one more item: after the items with
\* at least as many lines (the sort is stable), before those with fewer.
InsertByLines(sorted, item) ==
    LET n == Cardinality({i \in 1..Len(sorted) : sorted[i].lines >= item.lines})
    IN  SubSeq(sorted, 1, n) \o << item >> \o SubSeq(sorted, n + 1, Len(sorted))

RECURSIVE SortedStats(_)
\* sorted(stats.items(), key=lambda item: item[1]['lines'], reverse=True)
SortedStats(stats) ==
    IF stats = << >> THEN << >>
    ELSE InsertByLines(SortedStats(SubSeq(stats, 1, Len(stats) - 1)),
                       stats[Len(stats)])

\* One table row: the tag, its file count and its line count as printed.
ReportRow(data) ==
    Line("row", << data.lang, FormatThousands(data.files), FormatThousands(data.lines) >>)

\* The lines print_report writes to stdout.
print_report(stats, tfiles, tlines, path) ==
    LET sorted_stats == SortedStats(stats)
    IN  << Line("blank", << >>), Line("rule", << >>),
           Line("project_path", << path >>), Line("title", << >>),
           Line("rule", << >>), Line("header", << >>), Line("dash", << >>) >>
        \o [i \in 1..Len(sorted_stats) |-> ReportRow(sorted_stats[i])]
        \o << Line("dash", << >>),
              Line("total", << FormatThousands(tfiles), FormatThousands(tlines) >>),
              Line("rule", << >>), Line("blank", << >>), Line("note", << >>) >>

-----------------------------------------------------------------------------
(* main *)

\* os.path.exists in place of os.path.isdir. C7_InvalidRoot fails with it.
exists(kind) == kind # "missing"

\* os.path.isdir(project_path)
isdir(kind) == kind = "dir"

\* The test before print_report as >= 0. C6_NoFilesNoReport fails with it.
HasFilesOrNone(tfiles) == tfiles >= 0

\* if total_files > 0
HasFiles(tfiles) == tfiles > 0

-----------------------------------------------------------------------------
(* The program as a state machine. *)

Init ==
    /\ argv \in { << >> } \cup { << r >> : r \in RootArgs }
    /\ path_kind \in { "dir", "file", "missing" }
    /\ tree \in (IF path_kind = "dir" THEN Trees ELSE { {} })
    /\ pc = "main"
    /\ project_path = << >>
    /\ walk_stack = << >>
    /\ files_to_scan = << >>
    /\ idx = 0
    /\ stats_by_lang = << >>
    /\ total_files = 0
    /\ total_lines = 0
    /\ fs_opens = << >>
    /\ stdout = << >>
    /\ stderr = << >>
    /\ exit_code = -1
    /\ call_arg = << >>
    /\ call_ret = << >>

\* main up to the call of analyze_project, and analyze_project up to the walk.
Main ==
    /\ pc = "main"
    /\ LET path == IF argv = << >> THEN << "." >> ELSE argv[1]
       IN  /\ project_path' = path
           /\ \/ /\ ~ isdir(path_kind)
                 /\ stderr' = Append(stderr, Line("error", << path >>))
                 /\ exit_code' = 1
                 /\ pc' = "exited"
                 /\ UNCHANGED << stdout, walk_stack >>
              \/ /\ isdir(path_kind)
                 /\ stdout' = Append(stdout, Line("discovering", << >>))
                 /\ walk_stack' = << [path |-> path, loc |-> << >>] >>
                 /\ pc' = "walk"
                 /\ UNCHANGED << stderr, exit_code >>
    /\ UNCHANGED << argv, path_kind, tree, files_to_scan, idx, stats_by_lang,
                    total_files, total_lines, fs_opens, call_arg, call_ret >>

\* One iteration of the loop over os.walk(project_path, topdown=True): the
\* walk yields the next directory with its listing, the body prunes dirs in
\* place and collects the candidates, the walk then descends into what is
\* left of dirs, in order, before anything else.
WalkDir ==
    /\ pc = "walk"
    /\ walk_stack # << >>
    /\ LET top == Head(walk_stack)
       IN  \E dirs \in Orderings(ScanDirs(top.loc)),
              files \in Orderings(ScanFiles(top.loc)) :
             LET kept  == PruneDirs(dirs)
                 found == SelectSeq(files, IsCandidate)
             IN  /\ files_to_scan' = files_to_scan \o
                        [i \in 1..Len(found) |-> join(top.path, found[i])]
                 /\ walk_stack' =
                        [i \in 1..Len(kept) |->
                            [path |-> join(top.path, kept[i]),
                             loc  |-> Append(top.loc, kept[i])]]
                        \o Tail(walk_stack)
    /\ UNCHANGED << argv, path_kind, tree, pc, project_path, idx, stats_by_lang,
                    total_files, total_lines, fs_opens, stdout, stderr,
                    exit_code, call_arg, call_ret >>

\* After the walk: the early return when nothing was found, else the
\* announcement of the aggregation loop.
WalkEnd ==
    /\ pc = "walk"
    /\ walk_stack = << >>
    /\ \/ /\ files_to_scan = << >>
          /\ stdout' = Append(stdout, Line("nofiles", << >>))
          /\ stats_by_lang' = NothingFound.stats
          /\ total_files' = NothingFound.total_files
          /\ total_lines' = NothingFound.total_lines
          /\ pc' = "returned"
          /\ UNCHANGED idx
       \/ /\ files_to_scan # << >>
          /\ stdout' = Append(stdout,
                 Line("found", << FormatInt(Len(files_to_scan)) >>))
          /\ idx' = 1
          /\ pc' = "scan"
          /\ UNCHANGED << stats_by_lang, total_files, total_lines >>
    /\ UNCHANGED << argv, path_kind, tree, project_path, walk_stack,
                    files_to_scan, fs_opens, stderr, exit_code, call_arg,
                    call_ret >>

\* One iteration of the aggregation loop.
ScanFile ==
    /\ pc = "scan"
    /\ idx <= Len(files_to_scan)
    /\ \E file \in FileReads :
         LET file_path == files_to_scan[idx]
             step == ScanStep(stats_by_lang, file_path, file)
         IN  /\ fs_opens' = Append(fs_opens, [path |-> file_path, file |-> file])
             /\ stats_by_lang' = step.stats
             /\ stderr' = stderr \o step.err
    /\ idx' = idx + 1
    /\ UNCHANGED << argv, path_kind, tree, pc, project_path, walk_stack,
                    files_to_scan, total_files, total_lines, stdout, exit_code,
                    call_arg, call_ret >>

\* The end of analyze_project after the loop.
AnalyzeReturn ==
    /\ pc = "scan"
    /\ idx > Len(files_to_scan)
    /\ total_files' = Totals(stats_by_lang).total_files
    /\ total_lines' = Totals(stats_by_lang).total_lines
    /\ pc' = "returned"
    /\ UNCHANGED << argv, path_kind, tree, project_path, walk_stack,
                    files_to_scan, idx, stats_by_lang, fs_opens, stdout, stderr,
                    exit_code, call_arg, call_ret >>

\* main after analyze_project returned, to the end of the process.
MainReport ==
    /\ pc = "returned"
    /\ \/ /\ HasFiles(total_files)
          /\ stdout' = stdout \o
                 print_report(stats_by_lang, total_files, total_lines, project_path)
       \/ /\ ~ HasFiles(total_files)
          /\ UNCHANGED stdout
    /\ exit_code' = 0
    /\ pc' = "exited"
    /\ UNCHANGED << argv, path_kind, tree, project_path, walk_stack,
                    files_to_scan, idx, stats_by_lang, total_files, total_lines,
                    fs_opens, stderr, call_arg, call_ret >>

Next ==
    \/ Main
    \/ WalkDir
    \/ WalkEnd
    \/ ScanFile
    \/ AnalyzeReturn
    \/ MainReport

Spec == Init /\ [][Next]_vars
-----------------------------------------------------------------------------
(* count_lines_in_file called on its own, on every short file content. *)

Chars == { "x", LF, CR }

Contents == UNION { [1..n -> Chars] : n \in 0..MaxLen }

CountPath == << ".", SEP, "a", ".", "c" >>

\* The variables the function called on its own does not touch.
Idle ==
    /\ argv = << >>
    /\ path_kind = "dir"
    /\ tree = {}
    /\ project_path = << >>
    /\ walk_stack = << >>
    /\ files_to_scan = << >>
    /\ idx = 0
    /\ stats_by_lang = << >>
    /\ total_files = 0
    /\ total_lines = 0
    /\ fs_opens = << >>
    /\ exit_code = -1

IdleUnchanged ==
    UNCHANGED << argv, path_kind, tree, project_path, walk_stack, files_to_scan,
                 idx, stats_by_lang, total_files, total_lines, fs_opens,
                 exit_code >>

InitCount ==
    /\ Idle
    /\ pc = "count_call"
    /\ call_arg \in { [path |-> CountPath, file |-> f] :
                        f \in { ReadError } \cup
                              { [ok |-> TRUE, data |-> c] : c \in Contents } }
    /\ call_ret = << >>
    /\ stdout = << >>
    /\ stderr = << >>

CountCall ==
    /\ pc = "count_call"
    /\ LET counted == count_lines_in_file(call_arg.path, call_arg.file)
       IN  /\ call_ret' = << counted.ret >>
           /\ stderr' = stderr \o counted.err
    /\ pc' = "count_done"
    /\ IdleUnchanged
    /\ UNCHANGED << call_arg, stdout >>

SpecCount == InitCount /\ [][CountCall]_vars

-----------------------------------------------------------------------------
(* The aggregation loop of analyze_project run on its own, on a candidate  *)
(* list and on the same list in another order, over the same files.        *)

\* Candidate paths: two extensions, two files of each.
ScanPaths ==
    { << ".", SEP, "a", ".", "c" >>, << ".", SEP, "B", ".", "C" >>,
      << ".", SEP, "s", SEP, "a", ".", "h" >>, << ".", SEP, "b", ".", "h" >> }

ScanReads ==
    { ReadError,
      [ok |-> TRUE, data |-> <<"x", LF>>],
      [ok |-> TRUE, data |-> <<"x", CR, LF, "x">>] }

\* The lists of at most n distinct paths.
PathLists(n) ==
    UNION { { q \in [1..k -> ScanPaths] :
                \A i, j \in 1..k : q[i] = q[j] => i = j } : k \in 0..n }

IndexOrders(n) ==
    { q \in [1..n -> 1..n] : \A i, j \in 1..n : q[i] = q[j] => i = j }

RECURSIVE ScanAll(_, _, _)
\* for file_path in tqdm(files_to_scan, ...): the loop from stats on files,
\* the files giving what fs says.
ScanAll(stats, files, fs) ==
    IF files = << >> THEN stats
    ELSE ScanAll(ScanStep(stats, Head(files), fs[Head(files)]).stats,
                 Tail(files), fs)

\* analyze_project from the end of the walk, on a non-empty candidate list.
Aggregate(files, fs) ==
    IF files = << >> THEN NothingFound ELSE Totals(ScanAll(<< >>, files, fs))

InitAgg ==
    /\ Idle
    /\ pc = "agg_call"
    /\ \E files \in PathLists(MaxScan) :
         \E order \in IndexOrders(Len(files)) :
           \E fs \in [ { files[i] : i \in 1..Len(files) } -> ScanReads ] :
             call_arg = [files |-> files,
                         other |-> [i \in 1..Len(files) |-> files[order[i]]],
                         fs |-> fs]
    /\ call_ret = << >>
    /\ stdout = << >>
    /\ stderr = << >>

AggCall ==
    /\ pc = "agg_call"
    /\ call_ret' = << Aggregate(call_arg.files, call_arg.fs),
                      Aggregate(call_arg.other, call_arg.fs) >>
    /\ pc' = "agg_done"
    /\ IdleUnchanged
    /\ UNCHANGED << call_arg, stdout, stderr >>

SpecAgg == InitAgg /\ [][AggCall]_vars

-----------------------------------------------------------------------------
(* print_report called on its own, on the results analyze_project can      *)
(* return when it found files.                                             *)

MaxTags == 3

ReportLangs == { <<".","c">>, <<".","h">>, <<".","p","y">>, <<".","r">> }

ReportFiles == { 1, 1000 }

ReportLineCounts == { 0, 12, 1234567 }

ReportStats ==
    UNION { { q \in [1..k -> [lang : ReportLangs, files : ReportFiles,
                              lines : ReportLineCounts]] :
                \A i, j \in 1..k : q[i].lang = q[j].lang => i = j } : k \in 1..MaxTags }

InitReport ==
    /\ Idle
    /\ pc = "report_call"
    /\ \E stats \in ReportStats :
         call_arg = [stats |-> stats,
                     total_files |-> Totals(stats).total_files,
                     total_lines |-> Totals(stats).total_lines,
                     project_path |-> << "." >>]
    /\ call_ret = << >>
    /\ stdout = << >>
    /\ stderr = << >>

ReportCall ==
    /\ pc = "report_call"
    /\ stdout' = stdout \o print_report(call_arg.stats, call_arg.total_files,
                                        call_arg.total_lines, call_arg.project_path)
    /\ pc' = "report_done"
    /\ IdleUnchanged
    /\ UNCHANGED << call_arg, call_ret, stderr >>

SpecReport == InitReport /\ [][ReportCall]_vars

-----------------------------------------------------------------------------
(* Vocabulary of the properties. *)

\* The path given to analyze_project.
RootPath == IF argv = << >> THEN << "." >> ELSE argv[1]

RECURSIVE JoinAll(_, _)
JoinAll(base, names) ==
    IF names = << >> THEN base
    ELSE JoinAll(join(base, Head(names)), Tail(names))

\* The path under which the walk reports a file of the tree.
PathOf(e) == join(JoinAll(RootPath, e.dir), e.name)

\* The candidate list and the files opened, as sets of paths.
Scanned == { files_to_scan[i] : i \in DOMAIN files_to_scan }

Opened == { fs_opens[i].path : i \in DOMAIN fs_opens }

\* The file lies, below the root, under a directory with an excluded name.
UnderExcluded(e) == \E k \in 1..Len(e.dir) : e.dir[k] \in EXCLUDE_DIRS

\* The names of the directories a path string goes through.
AncestorDirs(p) ==
    { SubSeq(p, x[1], x[2]) :
        x \in { y \in (1..Len(p)) \X (1..Len(p)) :
                  /\ y[1] <= y[2]
                  /\ y[1] = 1 \/ p[y[1] - 1] = SEP
                  /\ y[2] < Len(p) /\ p[y[2] + 1] = SEP
                  /\ \A k \in y[1]..y[2] : p[k] # SEP } }

\* The process ended after main found the path to be a directory.
Finished == pc = "exited" /\ path_kind = "dir"

\* print_report ran: its table is on stdout.
ReportPrinted == \E i \in DOMAIN stdout : stdout[i].kind \in { "header", "row", "total" }

RECURSIVE SumTo(_, _)
\* f[1] + ... + f[n]
SumTo(f, n) == IF n = 0 THEN 0 ELSE SumTo(f, n - 1) + f[n]

\* The number a printed count stands for: its digits, commas dropped.
DigitValue(c) == CHOOSE d \in 0..9 : DigitChars[d + 1] = c

RECURSIVE ParseCount(_)
ParseCount(s) ==
    IF s = << >> THEN 0
    ELSE IF s[Len(s)] = ","
         THEN ParseCount(SubSeq(s, 1, Len(s) - 1))
         ELSE 10 * ParseCount(SubSeq(s, 1, Len(s) - 1)) + DigitValue(s[Len(s)])

\* Line terminators of a file content: each "\n", and each "\r" that no
\* "\n" follows (a "\r\n" pair is one terminator).
NumTerminators(c) ==
    Cardinality({ i \in 1..Len(c) :
                    \/ c[i] = LF
                    \/ c[i] = CR /\ ~ (i < Len(c) /\ c[i + 1] = LF) })

\* The content ends in characters that no terminator follows.
HasUnterminatedTail(c) == Len(c) > 0 /\ c[Len(c)] \notin { LF, CR }

\* The records of a content: terminated lines, plus an unterminated tail.
NumRecords(c) == NumTerminators(c) + (IF HasUnterminatedTail(c) THEN 1 ELSE 0)

-----------------------------------------------------------------------------
(* C1 *)

\* C1: in the result analyze_project returns, total_files is the sum of the
\* per-tag file counts and total_lines the sum of the per-tag line counts,
\* also on the early return with nothing found (empty mapping, 0, 0).
C1_Additivity ==
    pc \in { "returned", "exited" } =>
        /\ total_files = SumTo([i \in DOMAIN stats_by_lang |-> stats_by_lang[i].files],
                               Len(stats_by_lang))
        /\ total_lines = SumTo([i \in DOMAIN stats_by_lang |-> stats_by_lang[i].lines],
                               Len(stats_by_lang))
        /\ files_to_scan = << >> =>
               stats_by_lang = << >> /\ total_files = 0 /\ total_lines = 0

C1_Witness ==
    /\ pc = "returned"
    /\ Len(stats_by_lang) = 2
    /\ total_files = 2
    /\ total_lines = 4

-----------------------------------------------------------------------------
(* C2 *)

\* C2 as stated: whatever the root, no candidate path goes through a
\* directory named in EXCLUDE_DIRS.
C2_AnyAncestor ==
    \A p \in Scanned : AncestorDirs(p) \cap EXCLUDE_DIRS = {}

\* C2, amended: a file beneath a directory that lies below the root and is
\* named in EXCLUDE_DIRS is never a candidate, never opened and never
\* counted, at any depth; such a directory is never walked.
C2_PrunedBelowRoot ==
    /\ \A e \in tree : UnderExcluded(e) => PathOf(e) \notin Scanned \cup Opened
    /\ \A i \in DOMAIN walk_stack :
          \A k \in 1..Len(walk_stack[i].loc) :
              walk_stack[i].loc[k] \notin EXCLUDE_DIRS
    /\ pc \in { "returned", "exited" } =>
          total_files <= Cardinality({ e \in tree : ~ UnderExcluded(e) })

C2_Witness ==
    /\ Finished
    /\ total_files = 1
    /\ \E e \in tree :
          /\ Len(e.dir) = 2
          /\ e.dir[1] \notin EXCLUDE_DIRS
          /\ e.dir[2] \in EXCLUDE_DIRS
          /\ e.name = << "a", ".", "c" >>

-----------------------------------------------------------------------------
(* C3 *)

\* C3: a file whose name is in EXCLUDE_FILES is never a candidate, never
\* opened and in no count, even when its extension is in CODE_EXTENSIONS.
C3_ExcludedFiles ==
    /\ \A e \in tree : e.name \in EXCLUDE_FILES => PathOf(e) \notin Scanned \cup Opened
    /\ pc \in { "returned", "exited" } =>
          total_files <= Cardinality({ e \in tree : e.name \notin EXCLUDE_FILES })

C3_Witness ==
    /\ Finished
    /\ total_files = 1
    /\ \E e \in tree :
          /\ e.name \in EXCLUDE_FILES
          /\ lower(splitext(e.name)) \in CODE_EXTENSIONS
          /\ ~ UnderExcluded(e)

-----------------------------------------------------------------------------
(* C4 *)

\* C4: a file with an unrecognised extension is never a candidate; the
\* extension the aggregation loop takes from a candidate's path is the one
\* the walk took from its name; every key of the result is in
\* CODE_EXTENSIONS, no key occurs twice, and a bucket's file count is the
\* number of files processed whose name has that lowercased extension.
C4_OwnExtension ==
    files_to_scan # << >> =>
        LET path == [e \in tree |-> PathOf(e)]
            ext  == [e \in tree |-> lower(splitext(e.name))]
        IN  /\ \A p \in Scanned : \E e \in tree : path[e] = p
            /\ \A e \in tree :
                  path[e] \in Scanned =>
                      /\ ext[e] \in CODE_EXTENSIONS
                      /\ FileExt(path[e]) = ext[e]
            /\ \A k \in DOMAIN stats_by_lang :
                  /\ stats_by_lang[k].lang \in CODE_EXTENSIONS
                  /\ \A j \in DOMAIN stats_by_lang :
                        stats_by_lang[j].lang = stats_by_lang[k].lang => j = k
                  /\ stats_by_lang[k].files =
                        Cardinality({ i \in DOMAIN fs_opens :
                                        \E e \in tree :
                                            /\ path[e] = fs_opens[i].path
                                            /\ ext[e] = stats_by_lang[k].lang })
            /\ SumTo([i \in DOMAIN stats_by_lang |-> stats_by_lang[i].files],
                     Len(stats_by_lang)) = Len(fs_opens)

C4_Witness ==
    /\ Finished
    /\ \E e \in tree :
          /\ e.name = << "x", ".", "t" >>
          /\ ~ UnderExcluded(e)
    /\ \E k \in DOMAIN stats_by_lang :
          /\ stats_by_lang[k].lang = << ".", "h" >>
          /\ stats_by_lang[k].files = 1

-----------------------------------------------------------------------------
(* C5 *)

\* The opens that failed, in order.
FailedOpens == SelectSeq(fs_opens, LAMBDA o : ~ o.file.ok)

\* C5: each candidate is opened once, in order, and never again; stderr
\* holds one warning per failed open, for its path; a bucket's file count
\* counts failed files too and its line count adds 0 for them; the loop goes
\* on to the next candidate, and the run ends with status 0 with every candidate counted
\* and the report printed.
C5_UnreadableFile ==
    path_kind = "dir" =>
        /\ Len(fs_opens) <= Len(files_to_scan)
        /\ \A i \in DOMAIN fs_opens : fs_opens[i].path = files_to_scan[i]
        /\ stderr = [j \in 1..Len(FailedOpens) |->
                        Line("warning", << FailedOpens[j].path >>)]
        /\ \A k \in DOMAIN stats_by_lang :
              LET mine == { i \in DOMAIN fs_opens :
                              FileExt(fs_opens[i].path) = stats_by_lang[k].lang }
              IN  /\ stats_by_lang[k].files = Cardinality(mine)
                  /\ stats_by_lang[k].lines =
                        SumTo([i \in DOMAIN fs_opens |->
                                  IF i \in mine /\ fs_opens[i].file.ok
                                  THEN NumRecords(fs_opens[i].file.data)
                                  ELSE 0],
                              Len(fs_opens))
        /\ pc = "scan" => idx = Len(fs_opens) + 1
        /\ pc = "exited" =>
              /\ exit_code = 0
              /\ Len(fs_opens) = Len(files_to_scan)
              /\ total_files = Len(files_to_scan)
              /\ files_to_scan # << >> => ReportPrinted

C5_Witness ==
    /\ Finished
    /\ Len(fs_opens) = 2
    /\ ~ fs_opens[1].file.ok
    /\ fs_opens[2].file.ok
    /\ total_files = 2
    /\ total_lines = 2
    /\ Len(stderr) = 1
    /\ ReportPrinted

-----------------------------------------------------------------------------
(* C6 *)

\* C6 as stated: with a directory as root and no candidate, the process
\* ends with status 0 and the "no files found" message is all of stdout;
\* the report is printed exactly when a candidate was found.
C6_OnlyNoFilesMessage ==
    Finished =>
        /\ files_to_scan = << >> =>
              exit_code = 0 /\ stdout = << Line("nofiles", << >>) >>
        /\ ReportPrinted <=> files_to_scan # << >>

\* C6, amended: with a directory as root and no candidate, the process ends
\* with status 0 and stdout is the "discovering files" status line followed
\* by the "no files found" message, with no table; the report is printed
\* exactly when a candidate was found.
C6_NoFilesNoReport ==
    Finished =>
        /\ files_to_scan = << >> =>
              /\ exit_code = 0
              /\ stdout = << Line("discovering", << >>), Line("nofiles", << >>) >>
        /\ ReportPrinted <=> files_to_scan # << >>

C6_Witness ==
    /\ Finished
    /\ Cardinality(tree) = 2
    /\ files_to_scan = << >>
    /\ exit_code = 0
    /\ ~ ReportPrinted

-----------------------------------------------------------------------------
(* C7 *)

\* C7: when the path does not exist or is not a directory, nothing is
\* walked, opened or written to stdout, and the process ends with status 1
\* and the error for that path on stderr.
C7_InvalidRoot ==
    path_kind # "dir" =>
        /\ pc \in { "main", "exited" }
        /\ stdout = << >>
        /\ walk_stack = << >>
        /\ files_to_scan = << >>
        /\ fs_opens = << >>
        /\ pc = "exited" =>
              /\ exit_code = 1
              /\ stderr = << Line("error", << RootPath >>) >>

C7_Witness ==
    /\ pc = "exited"
    /\ path_kind = "file"
    /\ argv # << >>
    /\ exit_code = 1
    /\ Len(stderr) = 1

-----------------------------------------------------------------------------
(* C8 *)

\* C8: for a readable file, count_lines_in_file returns the number of
\* terminated lines plus one when characters follow the last terminator:
\* N + 1 for N terminated lines and an unterminated tail, N for N
\* terminated lines and nothing after, 0 for the empty file.
C8_LineCount ==
    (pc = "count_done" /\ call_arg.file.ok) =>
        /\ call_ret = << NumRecords(call_arg.file.data) >>
        /\ call_arg.file.data = << >> => call_ret = << 0 >>
        /\ stderr = << >>

C8_Witness ==
    /\ pc = "count_done"
    /\ call_arg.file.ok
    /\ NumTerminators(call_arg.file.data) = 2
    /\ HasUnterminatedTail(call_arg.file.data)
    /\ call_ret = << 3 >>

-----------------------------------------------------------------------------
(* C9 *)

ReportRows == SelectSeq(stdout, LAMBDA l : l.kind = "row")

\* C9: print_report prints one row per bucket, in descending order of line
\* count, each with its bucket's own file and line count, and after the
\* rows one totals row with total_files and total_lines.
C9_ReportRows ==
    pc = "report_done" =>
        /\ Len(ReportRows) = Len(call_arg.stats)
        /\ \A i \in 1..(Len(ReportRows) - 1) :
              ParseCount(ReportRows[i].args[3]) >= ParseCount(ReportRows[i + 1].args[3])
        /\ \A k \in DOMAIN call_arg.stats :
              LET rows == { i \in DOMAIN ReportRows :
                              ReportRows[i].args[1] = call_arg.stats[k].lang }
              IN  /\ Cardinality(rows) = 1
                  /\ \A i \in rows :
                        /\ ParseCount(ReportRows[i].args[2]) = call_arg.stats[k].files
                        /\ ParseCount(ReportRows[i].args[3]) = call_arg.stats[k].lines
        /\ LET totals == { i \in DOMAIN stdout : stdout[i].kind = "total" }
           IN  /\ Cardinality(totals) = 1
               /\ \A t \in totals :
                     /\ ParseCount(stdout[t].args[1]) = call_arg.total_files
                     /\ ParseCount(stdout[t].args[2]) = call_arg.total_lines
                     /\ \A i \in DOMAIN stdout : stdout[i].kind = "row" => i < t

C9_Witness ==
    /\ pc = "report_done"
    /\ Len(call_arg.stats) = 3
    /\ call_arg.stats[1].lines < call_arg.stats[2].lines
    /\ call_arg.stats[3].lines < call_arg.stats[1].lines
    /\ Len(ReportRows) = 3
    /\ ReportRows[1].args[3] = << "1", ",", "2", "3", "4", ",", "5", "6", "7" >>

-----------------------------------------------------------------------------
(* C10 *)

\* A result as a mapping, the order of the dict's keys dropped.
AsMapping(stats) == { stats[i] : i \in DOMAIN stats }

\* C10: the aggregation of a candidate list and of any reordering of it,
\* over the same files, give the same per-tag file counts, per-tag line
\* counts, total_files and total_lines.
C10_OrderIndependent ==
    pc = "agg_done" =>
        /\ AsMapping(call_ret[1].stats) = AsMapping(call_ret[2].stats)
        /\ Len(call_ret[1].stats) = Len(call_ret[2].stats)
        /\ call_ret[1].total_files = call_ret[2].total_files
        /\ call_ret[1].total_lines = call_ret[2].total_lines

C10_Witness ==
    /\ pc = "agg_done"
    /\ Len(call_arg.files) = 3
    /\ call_arg.files # call_arg.other
    /\ call_ret[1].stats # call_ret[2].stats
    /\ call_ret[1].total_files = 3
    /\ call_ret[1].total_lines = 3
    /\ \E k \in DOMAIN call_ret[1].stats : call_ret[1].stats[k].files = 2

=============================================================================
